---- MODULE Spec2Model ----
(***************************************************************************)
(* Model of MalayStemmer (src/MalayStemmer.py): the rule tables built by   *)
(* __init__, the nasalization resolver recover_root_from_prefix and the    *)
(* staged pipeline of stem.  Tokens are TLA+ strings; every call of stem   *)
(* is a small process whose program counter walks the stages of the code.  *)
(***************************************************************************)
EXTENDS Integers, Sequences, FiniteSets, TLC

\* ---------------------------------------------------------------- bounds
\* longest generated root over Alphabet
MaxRootLen == 3
\* longest generated part of a hyphenated token
MaxPartLen == 3
\* number of callers that may run stem on the one shared stemmer
NumThreads == 2

Threads == 1..NumThreads

\* ------------------------------------------------------- string helpers
Min(a, b) == IF a < b THEN a ELSE b
Max(a, b) == IF a > b THEN a ELSE b

\* str.startswith
startswith(w, p) == Len(p) <= Len(w) /\ SubSeq(w, 1, Len(p)) = p

\* str.endswith
endswith(w, s) == Len(s) <= Len(w) /\ SubSeq(w, Len(w) - Len(s) + 1, Len(w)) = s

\* Python slicing w[lo:hi] with lo >= 0; a negative hi counts from the end
slice(w, lo, hi) ==
    LET h == IF hi < 0 THEN Max(Len(w) + hi, 0) ELSE Min(hi, Len(w))
    IN  IF lo >= h THEN "" ELSE SubSeq(w, lo + 1, h)

\* w[n:]
drop(w, n) == slice(w, n, Len(w))

\* ch in s, for a one-character ch
contains(s, ch) == \E i \in 1..Len(s) : SubSeq(s, i, i) = ch

upper_to_lower ==
    ("A" :> "a") @@ ("B" :> "b") @@ ("C" :> "c") @@ ("D" :> "d") @@ ("E" :> "e") @@
    ("F" :> "f") @@ ("G" :> "g") @@ ("H" :> "h") @@ ("I" :> "i") @@ ("J" :> "j") @@
    ("K" :> "k") @@ ("L" :> "l") @@ ("M" :> "m") @@ ("N" :> "n") @@ ("O" :> "o") @@
    ("P" :> "p") @@ ("Q" :> "q") @@ ("R" :> "r") @@ ("S" :> "s") @@ ("T" :> "t") @@
    ("U" :> "u") @@ ("V" :> "v") @@ ("W" :> "w") @@ ("X" :> "x") @@ ("Y" :> "y") @@
    ("Z" :> "z")

\* str.lower
RECURSIVE lower(_)
lower(w) ==
    IF w = "" THEN ""
    ELSE LET ch == SubSeq(w, 1, 1)
         IN  (IF ch \in DOMAIN upper_to_lower THEN upper_to_lower[ch] ELSE ch)
                 \o lower(drop(w, 1))

\* str.split(sep) for a one-character sep: the list of parts
RECURSIVE split(_, _)
split(w, sep) ==
    IF contains(w, sep)
    THEN LET i == CHOOSE k \in 1..Len(w) :
                      /\ SubSeq(w, k, k) = sep
                      /\ \A j \in 1..(k - 1) : SubSeq(w, j, j) # sep
         IN  <<slice(w, 0, i - 1)>> \o split(drop(w, i), sep)
    ELSE <<w>>

\* ----------------------------------------------------------- rule tables
\* self.prefixes
InitPrefixes ==
    << "meng", "meny", "mem", "men", "me",
       "peng", "peny", "pem", "pen", "pe",
       "ber", "ter", "per", "di", "ke", "se" >>

\* self.suffixes
InitSuffixes == << "kan", "an", "i", "nya", "lah", "kah", "pun", "wan", "wati", "isme" >>

\* self.circumfixes
InitCircumfixes ==
    << <<"ke", "an">>, <<"per", "an">>, <<"pe", "an">>, <<"ber", "an">>,
       <<"me", "kan">>, <<"di", "kan">>, <<"mem", "kan">>, <<"men", "kan">>,
       <<"meng", "kan">>, <<"meny", "kan">>, <<"pem", "an">>, <<"pen", "an">>,
       <<"peng", "an">>, <<"peny", "an">>, <<"ter", "kan">>, <<"se", "nya">> >>

\* self.nasalization_rules: the dict in insertion order, as (key, rule) pairs
InitNasalizationRules ==
    << <<"mem",  [drops |-> "p", applies_to |-> "pbfv"]>>,
       <<"men",  [drops |-> "t", applies_to |-> "tdcjz"]>>,
       <<"meng", [drops |-> "k", applies_to |-> "kghaeiou"]>>,
       <<"meny", [drops |-> "s", applies_to |-> "s"]>>,
       <<"pem",  [drops |-> "p", applies_to |-> "pbfv"]>>,
       <<"pen",  [drops |-> "t", applies_to |-> "tdcjz"]>>,
       <<"peng", [drops |-> "k", applies_to |-> "kghaeiou"]>>,
       <<"peny", [drops |-> "s", applies_to |-> "s"]>>,
       <<"me",   [changes |-> FALSE]>>,
       <<"pe",   [changes |-> FALSE]>>,
       <<"ber",  [changes |-> FALSE]>>,
       <<"ter",  [changes |-> FALSE]>>,
       <<"di",   [changes |-> FALSE]>>,
       <<"ke",   [changes |-> FALSE]>>,
       <<"se",   [changes |-> FALSE]>>,
       <<"per",  [changes |-> FALSE]>> >>

\* self.exceptions, section by section
\* src/MalayStemmer.py lines 96-128
exceptions_arabic_loanwords ==
    ("alim" :> "alim") @@ ("amal" :> "amal") @@ ("arab" :> "arab") @@
    ("asal" :> "asal") @@ ("fikir" :> "fikir") @@ ("hakim" :> "hakim") @@
    ("halal" :> "halal") @@ ("haram" :> "haram") @@ ("hikayat" :> "hikayat") @@
    ("hukum" :> "hukum") @@ ("ilmu" :> "ilmu") @@ ("islam" :> "islam") @@
    ("kabar" :> "kabar") @@ ("kadar" :> "kadar") @@ ("kalam" :> "kalam") @@
    ("khalik" :> "khalik") @@ ("kitab" :> "kitab") @@ ("makhluk" :> "makhluk") @@
    ("masjid" :> "masjid") @@ ("menteri" :> "menteri") @@ ("musafir" :> "musafir") @@
    ("nabi" :> "nabi") @@ ("nasib" :> "nasib") @@ ("quran" :> "quran") @@
    ("raja" :> "raja") @@ ("rasul" :> "rasul") @@ ("salam" :> "salam") @@
    ("sultan" :> "sultan") @@ ("syarat" :> "syarat") @@ ("wakil" :> "wakil") @@
    ("wali" :> "wali") @@ ("waktu" :> "waktu") @@ ("zaman" :> "zaman")

\* src/MalayStemmer.py lines 132-139
exceptions_irregular_verbs ==
    ("berfikir" :> "fikir") @@ ("berfikiran" :> "fikir") @@ ("memfikir" :> "fikir") @@
    ("memfikiri" :> "fikir") @@ ("memfikirkan" :> "fikir") @@ ("difikir" :> "fikir") @@
    ("difikirkan" :> "fikir") @@ ("terfikir" :> "fikir")

\* the section with a derived form entered as the root of "kepimpinan"
exceptions_special_morphology_derived ==
    ("pemimpin" :> "pimpin") @@ ("kepimpinan" :> "pemimpin") @@ ("berpimpin" :> "pimpin") @@
    ("pimpinan" :> "pimpin")

\* src/MalayStemmer.py lines 143-146
exceptions_special_morphology ==
    ("pemimpin" :> "pimpin") @@ ("kepimpinan" :> "pimpin") @@ ("berpimpin" :> "pimpin") @@
    ("pimpinan" :> "pimpin")

\* src/MalayStemmer.py lines 149-152
exceptions_native_words ==
    ("negeri" :> "negeri") @@ ("negara" :> "negara") @@ ("duli" :> "duli") @@
    ("paduka" :> "paduka")

\* src/MalayStemmer.py lines 156-160
exceptions_special_nasalization ==
    ("mengaji" :> "kaji") @@ ("mengambil" :> "ambil") @@ ("mengikat" :> "ikat") @@
    ("mengerti" :> "erti") @@ ("mempunyai" :> "punya")

\* src/MalayStemmer.py lines 164-177
exceptions_complex_cases ==
    ("berwarna" :> "warna") @@ ("mewarnai" :> "warna") @@ ("bersejarah" :> "sejarah") @@
    ("berdasarkan" :> "dasar") @@ ("kerajaan" :> "raja") @@ ("kekuasaan" :> "kuasa") @@
    ("kehidupan" :> "hidup") @@ ("berkenalan" :> "kenal") @@ ("perjalanan" :> "jalan") @@
    ("permulaan" :> "mula") @@ ("kemampuan" :> "mampu") @@ ("kepandaian" :> "pandai") @@
    ("kebijaksanaan" :> "bijaksana") @@ ("peperangan" :> "perang")

\* src/MalayStemmer.py lines 181-191
exceptions_typical_nasalization ==
    ("melangkah" :> "langkah") @@ ("menangis" :> "tangis") @@ ("menulis" :> "tulis") @@
    ("mengajar" :> "ajar") @@ ("membaca" :> "baca") @@ ("melihat" :> "lihat") @@
    ("mendengar" :> "dengar") @@ ("meminta" :> "minta") @@ ("menerima" :> "terima") @@
    ("memberi" :> "beri") @@ ("memahami" :> "faham")

InitExceptions ==
    exceptions_arabic_loanwords @@ exceptions_irregular_verbs @@
    exceptions_special_morphology @@ exceptions_native_words @@
    exceptions_special_nasalization @@ exceptions_complex_cases @@
    exceptions_typical_nasalization

\* ------------------------------------------------------------------ state
VARIABLES
    exceptions,          \* self.exceptions
    circumfixes,         \* self.circumfixes
    nasalization_rules,  \* self.nasalization_rules
    suffixes,            \* self.suffixes
    prefixes,            \* self.prefixes
    pc,                  \* per call: the stage of stem about to run
    word,                \* per call: the argument of stem
    original,            \* per call: local original
    result,              \* per call: local result
    ret,                 \* per call: the returned root
    ran                  \* per call: the stages executed so far, in order

tables == <<exceptions, circumfixes, nasalization_rules, suffixes, prefixes>>
locals == <<pc, word, original, result, ret, ran>>
vars == <<exceptions, circumfixes, nasalization_rules, suffixes, prefixes,
          pc, word, original, result, ret, ran>>

\* -------------------------------------------------- recover_root_from_prefix
\* a rule applied without the test that the first letter is not the dropped one
apply_rule_keep(rule, remainder) ==
    IF "changes" \in DOMAIN rule /\ rule.changes = FALSE
    THEN [returned |-> TRUE, value |-> remainder]
    ELSE IF "drops" \in DOMAIN rule /\ "applies_to" \in DOMAIN rule
    THEN IF /\ remainder # ""
            /\ contains(rule.applies_to, SubSeq(remainder, 1, 1))
         THEN [returned |-> TRUE, value |-> remainder]
         ELSE [returned |-> TRUE, value |-> rule.drops \o remainder]
    ELSE [returned |-> FALSE, value |-> remainder]

\* one rule of the table applied to a remainder of at least 3 characters
apply_rule(rule, remainder) ==
    IF "changes" \in DOMAIN rule /\ rule.changes = FALSE
    THEN [returned |-> TRUE, value |-> remainder]
    ELSE IF "drops" \in DOMAIN rule /\ "applies_to" \in DOMAIN rule
    THEN IF /\ remainder # ""
            /\ contains(rule.applies_to, SubSeq(remainder, 1, 1))
            /\ SubSeq(remainder, 1, 1) # rule.drops
         THEN [returned |-> TRUE, value |-> remainder]
         ELSE [returned |-> TRUE, value |-> rule.drops \o remainder]
    ELSE [returned |-> FALSE, value |-> remainder]

\* the rule loop asking for 4 characters after the prefix
RECURSIVE recover_scan_four(_, _)
recover_scan_four(w, i) ==
    IF i > Len(nasalization_rules) THEN w
    ELSE LET prefix == nasalization_rules[i][1]
             rule == nasalization_rules[i][2]
             remainder == drop(w, Len(prefix))
         IN  IF startswith(w, prefix) /\ Len(remainder) >= 4
                  /\ apply_rule(rule, remainder).returned
             THEN apply_rule(rule, remainder).value
             ELSE recover_scan_four(w, i + 1)

\* the loop over self.nasalization_rules.items(), from entry i on
RECURSIVE recover_scan(_, _)
recover_scan(w, i) ==
    IF i > Len(nasalization_rules) THEN w
    ELSE LET prefix == nasalization_rules[i][1]
             rule == nasalization_rules[i][2]
             remainder == drop(w, Len(prefix))
         IN  IF startswith(w, prefix) /\ Len(remainder) >= 3
                  /\ apply_rule(rule, remainder).returned
             THEN apply_rule(rule, remainder).value
             ELSE recover_scan(w, i + 1)

recover_root_from_prefix(w) == recover_scan(w, 1)

\* ------------------------------------------------------- stages of stem
\* the X-X test looking only at the first two parts
is_reduplication_first_two(orig) ==
    LET parts == split(orig, "-")
    IN  Len(parts) >= 2 /\ parts[1] = parts[2] /\ Len(parts[1]) >= 3

\* stage 2: the X-X test on original.split('-')
is_reduplication(orig) ==
    LET parts == split(orig, "-")
    IN  Len(parts) = 2 /\ parts[1] = parts[2] /\ Len(parts[1]) >= 3

\* the circumfix loop accepting an interior of 2 characters
RECURSIVE circumfix_scan_short(_, _, _)
circumfix_scan_short(orig, res, i) ==
    IF i > Len(circumfixes)
    THEN [returned |-> FALSE, value |-> orig, result |-> res, pair |-> 0]
    ELSE LET prefix == circumfixes[i][1]
             suffix == circumfixes[i][2]
             stem_candidate == slice(orig, Len(prefix), 0 - Len(suffix))
             recovered == recover_root_from_prefix(prefix \o stem_candidate)
         IN  IF startswith(orig, prefix) /\ endswith(orig, suffix)
                  /\ Len(stem_candidate) >= 2
             THEN IF prefix \in {"mem", "men", "meng", "meny"}
                  THEN IF recovered # prefix \o stem_candidate
                       THEN [returned |-> TRUE, value |-> recovered,
                             result |-> recovered, pair |-> i]
                       ELSE [returned |-> TRUE, value |-> stem_candidate,
                             result |-> recovered, pair |-> i]
                  ELSE [returned |-> TRUE, value |-> stem_candidate,
                        result |-> res, pair |-> i]
             ELSE circumfix_scan_short(orig, res, i + 1)

\* the circumfix loop keeping the interior in result without returning it
RECURSIVE circumfix_scan_no_return(_, _, _)
circumfix_scan_no_return(orig, res, i) ==
    IF i > Len(circumfixes)
    THEN [returned |-> FALSE, value |-> orig, result |-> res, pair |-> 0]
    ELSE LET prefix == circumfixes[i][1]
             suffix == circumfixes[i][2]
             stem_candidate == slice(orig, Len(prefix), 0 - Len(suffix))
         IN  IF startswith(orig, prefix) /\ endswith(orig, suffix)
                  /\ Len(stem_candidate) >= 3
             THEN [returned |-> FALSE, value |-> orig,
                   result |-> stem_candidate, pair |-> i]
             ELSE circumfix_scan_no_return(orig, res, i + 1)

\* stage 3: the circumfix loop from pair i on; returned = a return statement
\* ran, value = what it returned, result = the local result afterwards
RECURSIVE circumfix_scan(_, _, _)
circumfix_scan(orig, res, i) ==
    IF i > Len(circumfixes)
    THEN [returned |-> FALSE, value |-> orig, result |-> res, pair |-> 0]
    ELSE LET prefix == circumfixes[i][1]
             suffix == circumfixes[i][2]
             stem_candidate == slice(orig, Len(prefix), 0 - Len(suffix))
             recovered == recover_root_from_prefix(prefix \o stem_candidate)
         IN  IF startswith(orig, prefix) /\ endswith(orig, suffix)
                  /\ Len(stem_candidate) >= 3
             THEN IF prefix \in {"mem", "men", "meng", "meny"}
                  THEN IF recovered # prefix \o stem_candidate
                       THEN [returned |-> TRUE, value |-> recovered,
                             result |-> recovered, pair |-> i]
                       ELSE [returned |-> TRUE, value |-> stem_candidate,
                             result |-> recovered, pair |-> i]
                  ELSE [returned |-> TRUE, value |-> stem_candidate,
                        result |-> res, pair |-> i]
             ELSE circumfix_scan(orig, res, i + 1)

\* sorted(self.prefixes, key=len, reverse=True): a stable sort, longest first
RECURSIVE sorted_by_len(_, _)
sorted_by_len(seq, n) ==
    IF n = 0 THEN <<>>
    ELSE SelectSeq(seq, LAMBDA p : Len(p) = n) \o sorted_by_len(seq, n - 1)

longest(seq) == IF seq = <<>> THEN 0
                ELSE CHOOSE n \in {Len(seq[i]) : i \in 1..Len(seq)} :
                         \A i \in 1..Len(seq) : Len(seq[i]) <= n

\* stage 4, second pass: the loop over the sorted prefixes from entry i on
RECURSIVE fallback_scan(_, _, _, _)
fallback_scan(orig, res, sorted, i) ==
    IF i > Len(sorted) THEN res
    ELSE LET candidate == drop(orig, Len(sorted[i]))
         IN  IF startswith(orig, sorted[i]) /\ Len(candidate) >= 3
             THEN candidate
             ELSE fallback_scan(orig, res, sorted, i + 1)

\* stage 4: the value of result after the prefix stage
prefix_stage(orig, res) ==
    IF \E i \in 1..Len(prefixes) : startswith(orig, prefixes[i])
    THEN LET root_candidate == recover_root_from_prefix(orig)
         IN  IF root_candidate # orig
             THEN root_candidate
             ELSE fallback_scan(orig, res, sorted_by_len(prefixes, longest(prefixes)), 1)
    ELSE res

\* the suffix loop leaving at the first suffix that fits, stripped or not
suffix_scan_stop_at_match(res, i) ==
    LET fits == {k \in i..Len(suffixes) : endswith(res, suffixes[k])}
    IN  IF fits = {} THEN res
        ELSE LET k == CHOOSE m \in fits : \A n \in fits : m <= n
                 stem_candidate == slice(res, 0, 0 - Len(suffixes[k]))
             IN  IF Len(stem_candidate) >= 3 THEN stem_candidate ELSE res

\* stage 5: the suffix loop from entry i on
RECURSIVE suffix_scan(_, _)
suffix_scan(res, i) ==
    IF i > Len(suffixes) THEN res
    ELSE LET stem_candidate == slice(res, 0, 0 - Len(suffixes[i]))
         IN  IF endswith(res, suffixes[i]) /\ Len(stem_candidate) >= 3
             THEN stem_candidate
             ELSE suffix_scan(res, i + 1)

suffix_stage(res) == suffix_scan(res, 1)

\* the final length check
validate(orig, res) == IF Len(res) < 3 THEN orig ELSE res

\* word in self.exceptions
in_exceptions(w) == w \in DOMAIN exceptions

\* stem as one function: what a call that runs alone returns
stem(w) ==
    IF in_exceptions(w) THEN exceptions[w]
    ELSE LET orig == lower(w)
         IN  IF is_reduplication(orig) THEN split(orig, "-")[1]
             ELSE IF circumfix_scan(orig, orig, 1).returned
                  THEN circumfix_scan(orig, orig, 1).value
             ELSE validate(orig, suffix_stage(prefix_stage(orig, orig)))

\* ----------------------------------------------------------------- inputs
Alphabet == {"a", "b", "k", "n", "p"}
Letters == "abcdefghijklmnopqrstuvwxyz"
PartAlphabet == {"a", "b"}

RECURSIVE Strings(_, _)
Strings(alphabet, n) ==
    IF n = 0 THEN {""}
    ELSE LET shorter == Strings(alphabet, n - 1)
         IN  shorter \cup {s \o a : s \in shorter, a \in alphabet}

\* the roots of the words quoted in the source, and one root per first letter
ExampleRoots ==
    {"gambar", "baca", "ukul", "pukul", "mata", "kura", "tulis", "ulis", "ajar",
     "anak", "xyz", "sapu", "apu", "lihat", "balik", "dapat", "laku", "ia"}
        \cup {SubSeq(Letters, i, i) \o "ola" : i \in 1..Len(Letters)}

Roots == Strings(Alphabet, MaxRootLen) \cup ExampleRoots

ToSet(seq) == {seq[i] : i \in 1..Len(seq)}

PrefixParts == {""} \cup ToSet(InitPrefixes)
SuffixParts == {""} \cup ToSet(InitSuffixes)

\* prefix + root + suffix
AffixedTokens == {p \o r \o s : p \in PrefixParts, r \in Roots, s \in SuffixParts}

Parts == Strings(PartAlphabet, MaxPartLen) \cup {"mata", "kura", "anak", "makan"}

\* tokens with one or two hyphens, and circumfixed X-Y tokens
HyphenTokens ==
    LET two == {x \o "-" \o y : x \in Parts, y \in Parts}
    IN  two \cup {t \o "-" \o z : t \in two, z \in Parts}
            \cup {"ke" \o t \o "an" : t \in two}

MixedCaseTokens ==
    {"Kerajaan", "KERAJAAN", "Mata-Mata", "Memukul", "MENGGAMBAR", "XYZ", "Di", "PembacaAn"}

Tokens == AffixedTokens \cup HyphenTokens \cup DOMAIN InitExceptions \cup MixedCaseTokens

\* tokens stemmed by concurrent callers: one per way of leaving the pipeline
ConcTokens ==
    {"kerajaan", "mata-mata", "pembacaan", "memukul", "menggambar", "bakan",
     "dikan", "Memukul", "ab", "berbabnya"}

\* ------------------------------------------------------------------- Init
InitTables ==
    /\ exceptions = InitExceptions
    /\ circumfixes = InitCircumfixes
    /\ nasalization_rules = InitNasalizationRules
    /\ suffixes = InitSuffixes
    /\ prefixes = InitPrefixes

\* a stemmer and one caller about to stem one token
Init ==
    /\ InitTables
    /\ \E w \in Tokens : word = [c \in Threads |-> IF c = 1 THEN w ELSE ""]
    /\ pc = [c \in Threads |-> IF c = 1 THEN "exceptions" ELSE "idle"]
    /\ original = [c \in Threads |-> ""]
    /\ result = [c \in Threads |-> ""]
    /\ ret = [c \in Threads |-> ""]
    /\ ran = [c \in Threads |-> <<>>]

\* a stemmer shared by NumThreads callers, each about to stem one token
InitConc ==
    /\ InitTables
    /\ word \in [Threads -> ConcTokens]
    /\ pc = [c \in Threads |-> "exceptions"]
    /\ original = [c \in Threads |-> ""]
    /\ result = [c \in Threads |-> ""]
    /\ ret = [c \in Threads |-> ""]
    /\ ran = [c \in Threads |-> <<>>]

\* ---------------------------------------------------------------- actions
Return(c, value) ==
    /\ ret' = [ret EXCEPT ![c] = value]
    /\ pc' = [pc EXCEPT ![c] = "returned"]

Goto(c, stage) ==
    /\ pc' = [pc EXCEPT ![c] = stage]
    /\ UNCHANGED ret

Ran(c, stage) == ran' = [ran EXCEPT ![c] = Append(@, stage)]

\* the exception lookup with its return statement missing
ExceptionLookupNoReturn(c) ==
    /\ pc[c] = "exceptions"
    /\ Ran(c, "exceptions")
    /\ original' = [original EXCEPT ![c] = lower(word[c])]
    /\ result' = [result EXCEPT ![c] =
                     IF in_exceptions(word[c]) THEN exceptions[word[c]]
                     ELSE lower(word[c])]
    /\ Goto(c, "reduplication")
    /\ UNCHANGED <<tables, word>>

\* 1. exception dictionary, then original = word.lower(); result = original
ExceptionLookup(c) ==
    /\ pc[c] = "exceptions"
    /\ Ran(c, "exceptions")
    /\ IF in_exceptions(word[c])
       THEN /\ Return(c, exceptions[word[c]])
            /\ UNCHANGED <<original, result>>
       ELSE /\ original' = [original EXCEPT ![c] = lower(word[c])]
            /\ result' = [result EXCEPT ![c] = lower(word[c])]
            /\ Goto(c, "reduplication")
    /\ UNCHANGED <<tables, word>>

\* 2. reduplication
Reduplication(c) ==
    /\ pc[c] = "reduplication"
    /\ Ran(c, "reduplication")
    /\ IF is_reduplication(original[c])
       THEN /\ result' = [result EXCEPT ![c] = split(original[c], "-")[1]]
            /\ Return(c, split(original[c], "-")[1])
       ELSE /\ Goto(c, "circumfixes")
            /\ UNCHANGED result
    /\ UNCHANGED <<tables, word, original>>

\* 3. circumfixes
Circumfixes(c) ==
    /\ pc[c] = "circumfixes"
    /\ Ran(c, "circumfixes")
    /\ LET r == circumfix_scan(original[c], result[c], 1)
       IN  /\ result' = [result EXCEPT ![c] = r.result]
           /\ IF r.returned THEN Return(c, r.value) ELSE Goto(c, "prefixes")
    /\ UNCHANGED <<tables, word, original>>

\* the prefix stage keeping result in an attribute shared by all callers
PrefixesShared(c) ==
    /\ pc[c] = "prefixes"
    /\ Ran(c, "prefixes")
    /\ result' = [t \in Threads |-> prefix_stage(original[c], result[c])]
    /\ Goto(c, "suffixes")
    /\ UNCHANGED <<tables, word, original>>

\* 4. prefixes with nasalization
Prefixes(c) ==
    /\ pc[c] = "prefixes"
    /\ Ran(c, "prefixes")
    /\ result' = [result EXCEPT ![c] = prefix_stage(original[c], result[c])]
    /\ Goto(c, "suffixes")
    /\ UNCHANGED <<tables, word, original>>

\* 5. suffixes
Suffixes(c) ==
    /\ pc[c] = "suffixes"
    /\ Ran(c, "suffixes")
    /\ result' = [result EXCEPT ![c] = suffix_stage(result[c])]
    /\ Goto(c, "validate")
    /\ UNCHANGED <<tables, word, original>>

\* the minimum length check and the final return
Validate(c) ==
    /\ pc[c] = "validate"
    /\ Ran(c, "validate")
    /\ Return(c, validate(original[c], result[c]))
    /\ UNCHANGED <<tables, word, original, result>>

Next ==
    \E c \in Threads :
        \/ ExceptionLookup(c)
        \/ Reduplication(c)
        \/ Circumfixes(c)
        \/ Prefixes(c)
        \/ Suffixes(c)
        \/ Validate(c)

Spec == Init /\ [][Next]_vars

SpecConc == InitConc /\ [][Next]_vars

\* ----------------------------------------------------------- properties
Returned(c) == pc[c] = "returned"

is_lower(w) == lower(w) = w

\* C1. Exception precedence: a call on a key of the exception table returns
\* exactly the value mapped to the key, and the exception lookup is the only
\* stage that ran: no reduplication, circumfix, prefix or suffix stage.
C1_ExceptionPrecedence ==
    \A c \in Threads :
        (Returned(c) /\ word[c] \in DOMAIN InitExceptions) =>
            /\ ret[c] = InitExceptions[word[c]]
            /\ ran[c] = <<"exceptions">>

\* a key that the affix rules alone would stem differently ("menteri" would
\* lose "men" and "i") has been returned as mapped
C1_Witness ==
    \E c \in Threads :
        /\ Returned(c)
        /\ word[c] = "menteri"
        /\ ret[c] = "menteri"
        /\ suffix_stage(prefix_stage(word[c], word[c])) # "menteri"

\* C2. Minimum length: for a lowercase token w, the returned root has at
\* least 3 characters when w has at least 3, and is w itself when w has fewer
\* than 3, whichever stage returned it.
C2_MinimumLength ==
    \A c \in Threads :
        (Returned(c) /\ is_lower(word[c])) =>
            /\ Len(word[c]) >= 3 => Len(ret[c]) >= 3
            /\ Len(word[c]) < 3 => ret[c] = word[c]

\* every rule that fits "keaban" would leave the two characters "ab": the
\* ke...an pair and the suffix "an" after the prefix "ke" have been passed
\* over, and the call has returned "aban"
C2_Witness ==
    \E c \in Threads :
        /\ Returned(c)
        /\ word[c] = "keaban"
        /\ ran[c][Len(ran[c])] = "validate"
        /\ ret[c] = "aban"

\* the prefix stage has just run on the call's token
AfterPrefixes(c) == pc[c] = "suffixes"

\* w = p + r with at least 3 characters in r
HasPrefix(w, p) == startswith(w, p) /\ Len(w) >= Len(p) + 3

\* C3. Nasalization, letter preserved: for "meng" + r with at least 3
\* characters in r and the first letter of r in "ghaeiou", the resolver
\* returns r; stem("menggambar") = "gambar".
C3_LetterPreserved ==
    \A c \in Threads :
        /\ (/\ AfterPrefixes(c)
            /\ is_lower(word[c])
            /\ HasPrefix(original[c], "meng")
            /\ contains("ghaeiou", SubSeq(original[c], 5, 5)))
               => /\ recover_root_from_prefix(original[c]) = drop(original[c], 4)
                  /\ result[c] = drop(original[c], 4)
        /\ (Returned(c) /\ word[c] = "menggambar") => ret[c] = "gambar"

\* the ("pem", "an") entry of self.circumfixes
PemAn == CHOOSE i \in 1..Len(InitCircumfixes) : InitCircumfixes[i] = <<"pem", "an">>

\* C4. Circumfix composition: stem("pembacaan") = "baca"; a token
\* "pem" + r + "an" that is no exception key, with at least 3 characters in r,
\* is stemmed through the pem...an pair and through no other pair.
C4_PemAnComposition ==
    \A c \in Threads :
        /\ (Returned(c) /\ word[c] = "pembacaan") => ret[c] = "baca"
        /\ (/\ Returned(c)
            /\ is_lower(word[c])
            /\ word[c] \notin DOMAIN InitExceptions
            /\ startswith(word[c], "pem") /\ endswith(word[c], "an")
            /\ Len(word[c]) >= 8)
               => /\ circumfix_scan(word[c], word[c], 1).pair = PemAn
                  /\ ret[c] = SubSeq(word[c], 4, Len(word[c]) - 2)

\* w is X-X for a hyphen-free X of at least 3 characters
is_XX(w) ==
    \E n \in 3..Len(w) :
        /\ Len(w) = 2 * n + 1
        /\ SubSeq(w, n + 1, n + 1) = "-"
        /\ SubSeq(w, 1, n) = SubSeq(w, n + 2, 2 * n + 1)
        /\ ~contains(SubSeq(w, 1, n), "-")

\* C5. Reduplication collapse: a lowercase token X-X, X hyphen-free with at
\* least 3 characters, is returned as X by the reduplication stage, with no
\* later stage run; every other lowercase token (three or more parts, unequal
\* parts, parts under 3 characters) is not returned by the reduplication stage
\* and goes on to the circumfix stage.
C5_ReduplicationCollapse ==
    \A c \in Threads :
        (Returned(c) /\ is_lower(word[c])) =>
            IF is_XX(word[c])
            THEN /\ ret[c] = SubSeq(word[c], 1, (Len(word[c]) - 1) \div 2)
                 /\ ran[c] = <<"exceptions", "reduplication">>
            ELSE /\ ran[c] # <<"exceptions", "reduplication">>
                 /\ word[c] \notin DOMAIN InitExceptions =>
                        /\ Len(ran[c]) >= 3
                        /\ ran[c][3] = "circumfixes"

\* "makan-makan" has been returned as "makan", although the suffix stage
\* would have cut "makan" to "mak"
C5_Witness ==
    \E c \in Threads :
        /\ Returned(c)
        /\ word[c] = "makan-makan"
        /\ ret[c] = "makan"
        /\ suffix_stage("makan") = "mak"

\* the root the claim names for "mem" + r
MemRoot(r) ==
    IF SubSeq(r, 1, 1) \in {"b", "f", "v"} THEN r ELSE "p" \o r

\* C6. Nasalization, letter restored: for "mem" + r with at least 3
\* characters in r, the resolver returns r when r starts with b, f or v and
\* "p" + r for every other first letter, p included; stem("memukul") = "pukul".
C6_LetterRestored ==
    \A c \in Threads :
        /\ (pc[c] \notin {"idle", "exceptions"} /\ HasPrefix(original[c], "mem"))
               => recover_root_from_prefix(original[c]) = MemRoot(drop(original[c], 3))
        /\ (AfterPrefixes(c) /\ HasPrefix(original[c], "mem"))
               => result[c] = MemRoot(drop(original[c], 3))
        /\ (Returned(c) /\ word[c] = "memukul") => ret[c] = "pukul"

\* the prefix stage has turned "mempola" into "ppola": the p is restored
\* although the remainder already starts with p
C6_Witness ==
    \E c \in Threads :
        /\ AfterPrefixes(c)
        /\ original[c] = "mempola"
        /\ result[c] = "ppola"

\* C7 as stated. Exception roots are fixed points: for every key k of the
\* exception table, stemming the root that stem(k) returned gives that root
\* again.
C7_ExceptionRootsFixed ==
    \A c \in Threads :
        (Returned(c) /\ word[c] \in DOMAIN InitExceptions) => stem(ret[c]) = ret[c]

\* C7 as amended. For every key k of the exception table whose root stem(k)
\* is itself a key of the table, stemming that root gives the root again.
C7_KeyRootsFixed ==
    \A c \in Threads :
        (/\ Returned(c)
         /\ word[c] \in DOMAIN InitExceptions
         /\ ret[c] \in DOMAIN InitExceptions) => stem(ret[c]) = ret[c]

\* "kerajaan" has been stemmed to "raja", a different word that is a key too
C7_Witness ==
    \E c \in Threads :
        /\ Returned(c)
        /\ word[c] = "kerajaan"
        /\ ret[c] = "raja"
        /\ ret[c] \in DOMAIN InitExceptions

\* C8. Statelessness under concurrency: in every interleaving of the calls
\* made on the shared stemmer no step changes a rule table, and a call that
\* has returned has returned the root its token yields when stemmed alone.
C8_Stateless ==
    /\ [][UNCHANGED tables]_vars
    /\ [](\A c \in Threads : Returned(c) => ret[c] = stem(word[c]))

\* two calls on different tokens are both under way: one has had its prefix
\* stripped and is about to lose a suffix, the other is at the circumfix stage
C8_Witness ==
    \E c, d \in Threads :
        /\ c # d
        /\ word[c] # word[d]
        /\ pc[c] = "suffixes" /\ result[c] # original[c]
        /\ pc[d] = "circumfixes"

\* pair i of the table fits w with an interior of at least 3 characters
Matches(w, i) ==
    LET p == InitCircumfixes[i][1]
        s == InitCircumfixes[i][2]
    IN  /\ Len(w) >= Len(p) + Len(s) + 3
        /\ SubSeq(w, 1, Len(p)) = p
        /\ SubSeq(w, Len(w) - Len(s) + 1, Len(w)) = s

Interior(w, i) ==
    SubSeq(w, Len(InitCircumfixes[i][1]) + 1, Len(w) - Len(InitCircumfixes[i][2]))

FirstMatch(w) ==
    CHOOSE i \in 1..Len(InitCircumfixes) :
        Matches(w, i) /\ \A j \in 1..(i - 1) : ~Matches(w, j)

NasalPairRoot(w, p) ==
    LET interior == SubSeq(w, Len(p) + 1, Len(w) - 3)
        recovered == recover_root_from_prefix(p \o interior)
    IN  IF recovered # p \o interior THEN recovered ELSE interior

\* C10. Nasalization inside the circumfix stage: a token that is no exception
\* key, starts with mem, men, meng or meny and ends with kan, with at least 3
\* characters in between, is stemmed by that nasalizing pair with the resolver
\* applied to prefix + interior; stem("membacakan") = "baca",
\* stem("menuliskan") = "tulis", stem("mengajarkan") = "ajar".
C10_NasalizingCircumfix ==
    \A c \in Threads :
        /\ (Returned(c) /\ word[c] = "membacakan") => ret[c] = "baca"
        /\ (Returned(c) /\ word[c] = "menuliskan") => ret[c] = "tulis"
        /\ (Returned(c) /\ word[c] = "mengajarkan") => ret[c] = "ajar"
        /\ \A p \in {"mem", "men", "meng", "meny"} :
               (/\ Returned(c)
                /\ is_lower(word[c])
                /\ word[c] \notin DOMAIN InitExceptions
                /\ HasPrefix(word[c], p) /\ endswith(word[c], "kan")
                /\ Len(word[c]) >= Len(p) + 6)
                   => /\ circumfixes[circumfix_scan(word[c], word[c], 1).pair][1]
                             \in {"mem", "men", "meng", "meny"}
                      /\ \E q \in {"mem", "men", "meng", "meny"} :
                             /\ HasPrefix(word[c], q)
                             /\ ret[c] = NasalPairRoot(word[c], q)

\* entry i of the suffix table ends res and leaves at least 3 characters
Strippable(res, i) ==
    LET s == InitSuffixes[i]
    IN  /\ Len(res) >= Len(s) + 3
        /\ SubSeq(res, Len(res) - Len(s) + 1, Len(res)) = s

\* res without the first strippable suffix in table order, or res itself
WithoutFirstSuffix(res) ==
    IF \E i \in 1..Len(InitSuffixes) : Strippable(res, i)
    THEN LET i == CHOOSE k \in 1..Len(InitSuffixes) :
                      Strippable(res, k) /\ \A j \in 1..(k - 1) : ~Strippable(res, j)
         IN  SubSeq(res, 1, Len(res) - Len(InitSuffixes[i]))
    ELSE res

\* C11. Suffix stripper: when the circumfix stage did not commit, the suffix
\* stage turns the working result left by the prefix stage (the token itself
\* if no prefix applied) into that string without the first suffix, in the
\* order kan, an, i, nya, lah, kah, pun, wan, wati, isme, that ends it and
\* leaves at least 3 characters; a suffix that would leave fewer is passed
\* over; with no such suffix the working result stays, and this is what the
\* call returns.
C11_SuffixStripper ==
    /\ [][\A c \in Threads :
             (pc[c] = "suffixes" /\ pc'[c] # "suffixes")
                 => result'[c] = WithoutFirstSuffix(result[c])]_vars
    /\ [](\A c \in Threads :
             (pc[c] \in {"suffixes", "validate"} \/ (Returned(c) /\ "suffixes" \in ToSet(ran[c])))
                 => /\ InitSuffixes = <<"kan", "an", "i", "nya", "lah", "kah",
                                        "pun", "wan", "wati", "isme">>
                    /\ pc[c] = "suffixes" =>
                           result[c] = prefix_stage(original[c], original[c])
                    /\ pc[c] = "validate" =>
                           result[c] = WithoutFirstSuffix(prefix_stage(original[c], original[c]))
                    /\ Returned(c) =>
                           ret[c] = WithoutFirstSuffix(prefix_stage(original[c], original[c])))

\* "abkan": the suffix "kan" fits but would leave "ab" and has been passed
\* over; "an" has been stripped, once, and "abk" is about to be returned
C11_Witness ==
    \E c \in Threads :
        /\ pc[c] = "validate"
        /\ original[c] = "abkan"
        /\ endswith(original[c], "kan")
        /\ result[c] = "abk"

\* some entry of the prefix list starts w and leaves at least 3 characters
SomePrefixStrips(w) ==
    \E i \in 1..Len(InitPrefixes) :
        /\ Len(w) >= Len(InitPrefixes[i]) + 3
        /\ SubSeq(w, 1, Len(InitPrefixes[i])) = InitPrefixes[i]

\* the prefix stage without its second, length-sorted pass
prefix_stage_no_fallback(orig, res) ==
    IF \E i \in 1..Len(prefixes) : startswith(orig, prefixes[i])
    THEN LET root_candidate == recover_root_from_prefix(orig)
         IN  IF root_candidate # orig THEN root_candidate ELSE res
    ELSE res

\* stem without the second pass of the prefix stage
stem_no_fallback(w) ==
    IF in_exceptions(w) THEN exceptions[w]
    ELSE LET orig == lower(w)
         IN  IF is_reduplication(orig) THEN split(orig, "-")[1]
             ELSE IF circumfix_scan(orig, orig, 1).returned
                  THEN circumfix_scan(orig, orig, 1).value
             ELSE validate(orig, suffix_stage(prefix_stage_no_fallback(orig, orig)))

\* C12. The length-sorted second pass of the prefix stage never changes the
\* outcome: for a lowercase token the resolver returns a string different
\* from its input exactly when some entry of the prefix list starts the token
\* and leaves at least 3 characters; so when the resolver returns its input
\* the second pass strips nothing, and the call returns what stem without the
\* second pass returns.
C12_FallbackNeverFires ==
    /\ [][\A c \in Threads :
             (pc[c] = "prefixes" /\ pc'[c] # "prefixes" /\ is_lower(word[c]))
                 => /\ recover_root_from_prefix(original[c]) = original[c]
                        => result'[c] = result[c]
                    /\ result'[c] = prefix_stage_no_fallback(original[c], result[c])]_vars
    /\ [](\A c \in Threads :
             /\ (pc[c] \notin {"idle", "exceptions"} /\ is_lower(word[c]))
                    => (recover_root_from_prefix(original[c]) # original[c]
                            <=> SomePrefixStrips(original[c]))
             /\ Returned(c) => ret[c] = stem_no_fallback(word[c]))

\* "diab" starts with the prefix "di" but only "ab" would remain: the resolver
\* has returned it unchanged, the second pass has run and stripped nothing
C12_Witness ==
    \E c \in Threads :
        /\ AfterPrefixes(c)
        /\ original[c] = "diab"
        /\ \E i \in 1..Len(prefixes) : startswith(original[c], prefixes[i])
        /\ recover_root_from_prefix(original[c]) = original[c]
        /\ result[c] = "diab"

\* --------------------------------------------------------- type invariant
TypeOK ==
    /\ pc \in [Threads -> {"idle", "exceptions", "reduplication", "circumfixes",
                           "prefixes", "suffixes", "validate", "returned"}]
    /\ \A c \in Threads : pc[c] = "returned" => ret[c] = stem(word[c])

====
